---------------------------- MODULE Spec2Model ----------------------------
(***************************************************************************)
(* A model of server.py of the traceroute dashboard: the probe runner and  *)
(* hop parser (run_traceroute), the geolocation resolver (geolocate_ip),   *)
(* the per-target pipeline (process_target), the orchestrator              *)
(* (run_all_traceroutes) and the start-up decision of main.                *)
(*                                                                         *)
(* Text is modelled at the level of characters: a character is a string of *)
(* length one, a token (a maximal run of non-blank characters) is a        *)
(* sequence of characters, a line is the sequence of its tokens (the empty *)
(* sequence is a blank line) and an output is a sequence of lines.         *)
(***************************************************************************)
EXTENDS Integers, Sequences, FiniteSets, TLC

(***************************************************************************)
(* Bounds of the model.                                                    *)
(***************************************************************************)
\* Number of (category, target) pairs of the work list.
NTargets == 2

\* Largest number of lines of a raw probe text given to the parser alone.
MaxLines == 2

(***************************************************************************)
(* Program constants.                                                      *)
(***************************************************************************)
\* ThreadPoolExecutor(max_workers=6)
MaxWorkers == 6

\* cat_order.get(r["category"], 9)
OtherRank == 9

(***************************************************************************)
(* Characters and Python's conversions on them.                            *)
(***************************************************************************)
Digits == {"0", "1", "2", "3", "4", "5", "6", "7", "8", "9"}

DigitVal(c) ==
    CASE c = "0" -> 0 [] c = "1" -> 1 [] c = "2" -> 2 [] c = "3" -> 3
      [] c = "4" -> 4 [] c = "5" -> 5 [] c = "6" -> 6 [] c = "7" -> 7
      [] c = "8" -> 8 [] c = "9" -> 9

\* str.startswith
StartsWith(s, prefix) ==
    /\ Len(s) >= Len(prefix)
    /\ \A k \in 1..Len(prefix) : s[k] = prefix[k]

\* The regular expression \d+ on a whole string.
AllDigits(s) == Len(s) > 0 /\ \A k \in 1..Len(s) : s[k] \in Digits

\* int() of a string of digits.
RECURSIVE IntOf(_)
IntOf(s) ==
    IF s = <<>> THEN 0
    ELSE 10 * IntOf(SubSeq(s, 1, Len(s) - 1)) + DigitVal(s[Len(s)])

\* The regular expression \d+\.\d+\.\d+\.\d+ on a whole string: digits and
\* dots only, exactly three dots, each of the four parts non-empty.
IsIPv4(s) ==
    /\ Len(s) > 0
    /\ \A k \in 1..Len(s) : s[k] \in Digits \cup {"."}
    /\ Cardinality({k \in 1..Len(s) : s[k] = "."}) = 3
    /\ s[1] # "." /\ s[Len(s)] # "."
    /\ \A k \in 1..(Len(s) - 1) : ~(s[k] = "." /\ s[k + 1] = ".")

\* Length of the longest prefix matched by [\d.]+ (0: no match).
RECURSIVE NumPrefixLen(_)
NumPrefixLen(s) ==
    IF s = <<>> \/ s[1] \notin Digits \cup {"."} THEN 0
    ELSE 1 + NumPrefixLen(Tail(s))

\* Whether float() accepts a string of digits and dots: at most one dot and
\* at least one digit ("1.2.3" and "." raise ValueError).
FloatOk(s) ==
    /\ Cardinality({k \in 1..Len(s) : s[k] = "."}) <= 1
    /\ \E k \in 1..Len(s) : s[k] \in Digits

\* Normal form of a decimal <<mantissa, number of fraction digits>>.
RECURSIVE Normalize(_)
Normalize(d) ==
    IF d[2] > 0 /\ d[1] % 10 = 0 THEN Normalize(<<d[1] \div 10, d[2] - 1>>)
    ELSE d

\* float() of an accepted string, as an exact decimal in normal form.
FloatOf(s) ==
    LET dots   == {k \in 1..Len(s) : s[k] = "."}
        dot    == IF dots = {} THEN Len(s) + 1 ELSE CHOOSE k \in dots : TRUE
        digits == SubSeq(s, 1, dot - 1) \o SubSeq(s, dot + 1, Len(s))
    IN  Normalize(<<IntOf(digits), IF dots = {} THEN 0 ELSE Len(s) - dot>>)

(***************************************************************************)
(* Python values.  None is the empty sequence where the other values are   *)
(* sequences (an ip, a latency) and the string "None" where they are       *)
(* strings (a geo); NoKey says that a dict has no such key.                *)
(***************************************************************************)
None == <<>>

NoGeo == "None"

NoKey == "<no key>"

\* Python's truth value of an optional float: None and 0.0 are false.
TruthyFloat(x) == x # None /\ x[1] # 0

\* Python's truth value of an optional string: None and "" are false.
TruthyStr(x) == x # <<>>

(***************************************************************************)
(* run_traceroute: the three regular expressions, on the tokens of a       *)
(* stripped line.  re.match anchors at the start only, so tokens after the *)
(* matched ones are not looked at.                                         *)
(***************************************************************************)
\* ([\d.]+)\s*ms at token k: the latency is the longest prefix of the token
\* made of digits and dots, and "ms" follows at once or opens the next token.
LatencyAt(toks, k) ==
    IF k > Len(toks) THEN None
    ELSE LET n    == NumPrefixLen(toks[k])
             rest == SubSeq(toks[k], n + 1, Len(toks[k]))
         IN  IF n = 0 THEN None
             ELSE IF StartsWith(rest, <<"m", "s">>) THEN SubSeq(toks[k], 1, n)
             ELSE IF rest = <<>> /\ k + 1 <= Len(toks)
                     /\ StartsWith(toks[k + 1], <<"m", "s">>)
                  THEN SubSeq(toks[k], 1, n)
             ELSE None

\* \s*(\d+)\s+(\S+)\s+\((\d+\.\d+\.\d+\.\d+)\)\s+([\d.]+)\s*ms
MatchNamed(toks) ==
    /\ Len(toks) >= 4
    /\ AllDigits(toks[1])
    /\ Len(toks[3]) >= 2
    /\ toks[3][1] = "(" /\ toks[3][Len(toks[3])] = ")"
    /\ IsIPv4(SubSeq(toks[3], 2, Len(toks[3]) - 1))
    /\ LatencyAt(toks, 4) # None

\* \s*(\d+)\s+(\d+\.\d+\.\d+\.\d+)\s+([\d.]+)\s*ms
MatchBare(toks) ==
    /\ Len(toks) >= 3
    /\ AllDigits(toks[1])
    /\ IsIPv4(toks[2])
    /\ LatencyAt(toks, 3) # None

\* The third pattern searched for the "*" in the whole rest of the line,
\* as \s*(\d+)\s.*\* would.
MatchTimeoutAnywhere(toks) ==
    /\ Len(toks) >= 2
    /\ AllDigits(toks[1])
    /\ \E k \in 2..Len(toks) : \E c \in 1..Len(toks[k]) : toks[k][c] = "*"

\* \s*(\d+)\s+\*
MatchTimeout(toks) ==
    /\ Len(toks) >= 2
    /\ AllDigits(toks[1])
    /\ toks[2][1] = "*"

Hop(n, host, ip, rtt) ==
    [hop |-> n, host |-> host, ip |-> ip, rtt_ms |-> rtt, geo |-> NoKey]

\* One pass of the body of the loop over the lines: what the line does to
\* the hops, or that float() raised.
ParseLine(toks) ==
    IF toks = <<>> THEN [raised |-> FALSE, hops |-> <<>>]
    ELSE IF MatchNamed(toks) THEN
        IF FloatOk(LatencyAt(toks, 4))
        THEN [raised |-> FALSE,
              hops |-> <<Hop(IntOf(toks[1]), toks[2],
                             SubSeq(toks[3], 2, Len(toks[3]) - 1),
                             FloatOf(LatencyAt(toks, 4)))>>]
        ELSE [raised |-> TRUE, hops |-> <<>>]
    ELSE IF MatchBare(toks) THEN
        IF FloatOk(LatencyAt(toks, 3))
        THEN [raised |-> FALSE,
              hops |-> <<Hop(IntOf(toks[1]), toks[2], toks[2],
                             FloatOf(LatencyAt(toks, 3)))>>]
        ELSE [raised |-> TRUE, hops |-> <<>>]
    ELSE IF MatchTimeout(toks)
        THEN [raised |-> FALSE,
              hops |-> <<Hop(IntOf(toks[1]), <<"*">>, None, None)>>]
    ELSE [raised |-> FALSE, hops |-> <<>>]

\* str.strip() of the output: blank lines at both ends go.
RECURSIVE StripLines(_)
StripLines(lines) ==
    IF lines = <<>> THEN <<>>
    ELSE IF Head(lines) = <<>> THEN StripLines(Tail(lines))
    ELSE IF lines[Len(lines)] = <<>>
        THEN StripLines(SubSeq(lines, 1, Len(lines) - 1))
    ELSE lines

\* output.strip().split("\n")[1:]
BodyLines(output) ==
    LET stripped == StripLines(output)
    IN  IF stripped = <<>> THEN <<>> ELSE Tail(stripped)

\* The loop over the lines: the hops appended so far, until float() raises.
RECURSIVE ParseFrom(_, _)
ParseFrom(lines, hops) ==
    IF lines = <<>> THEN [raised |-> FALSE, hops |-> hops]
    ELSE LET r == ParseLine(Head(lines))
         IN  IF r.raised THEN [raised |-> TRUE, hops |-> hops]
             ELSE ParseFrom(Tail(lines), hops \o r.hops)

\* Lines 45-79 of run_traceroute on the captured output.
ParseOutput(output) == ParseFrom(BodyLines(output), <<>>)

(***************************************************************************)
(* geolocate_ip and process_target: the pure parts.                        *)
(***************************************************************************)
\* RejectedLocally without the test for "10.".
RejectedLocallyNo10(ip) ==
    \/ ~TruthyStr(ip)
    \/ StartsWith(ip, <<"1", "9", "2", ".", "1", "6", "8", ".">>)
    \/ StartsWith(ip, <<"1", "7", "2", ".">>)

\* Line 84: ip.startswith("10.") or ip.startswith("192.168.") or
\* ip.startswith("172."), after "not ip".
RejectedLocally(ip) ==
    \/ ~TruthyStr(ip)
    \/ StartsWith(ip, <<"1", "0", ".">>)
    \/ StartsWith(ip, <<"1", "9", "2", ".", "1", "6", "8", ".">>)
    \/ StartsWith(ip, <<"1", "7", "2", ".">>)

\* GEO_CACHE.get(ip)
CacheGet(cache, ip) == IF ip \in DOMAIN cache THEN cache[ip] ELSE NoGeo

\* GEO_CACHE[ip] = geo
CachePut(cache, ip, geo) ==
    [x \in DOMAIN cache \cup {ip} |-> IF x = ip THEN geo ELSE cache[x]]

\* list(dict.fromkeys(ips)): the first occurrences, in order.
RECURSIVE Dedupe(_, _)
Dedupe(ips, seen) ==
    IF ips = <<>> THEN <<>>
    ELSE IF Head(ips) \in seen THEN Dedupe(Tail(ips), seen)
    ELSE <<Head(ips)>> \o Dedupe(Tail(ips), seen \cup {Head(ips)})

\* Lines 120-121: the ips of the hops that have one, without repeats.
RECURSIVE IpsOf(_)
IpsOf(hops) ==
    IF hops = <<>> THEN <<>>
    ELSE (IF TruthyStr(Head(hops).ip) THEN <<Head(hops).ip>> ELSE <<>>)
         \o IpsOf(Tail(hops))

\* Lines 120-121 without dict.fromkeys: every hop ip, repeats included.
UniqueIpsNoDedupe(hops) == IpsOf(hops)

UniqueIps(hops) == Dedupe(IpsOf(hops), {})

\* Lines 139-146: the dict process_target returns (it has no "error" key).
TargetResult(target, hops) ==
    [name      |-> target.name,
     host      |-> target.host,
     category  |-> target.category,
     hop_count |-> Len(hops),
     total_rtt |-> IF hops # <<>> /\ TruthyFloat(hops[Len(hops)].rtt_ms)
                   THEN hops[Len(hops)].rtt_ms ELSE None,
     hops      |-> hops,
     error     |-> NoKey]

\* Lines 172-180: the stub appended when future.result() raises.
StubResult(target, e) ==
    [name      |-> target.name,
     host      |-> target.host,
     category  |-> target.category,
     hop_count |-> 0,
     total_rtt |-> None,
     hops      |-> <<>>,
     error     |-> e]

\* Lines 132-137 without the else branch of line 137: a hop with no ip keeps
\* no "geo" key.
RECURSIVE AttachSkipNoElse(_, _)
AttachSkipNoElse(hops, j) ==
    IF j > Len(hops) \/ TruthyStr(hops[j].ip) THEN [hops |-> hops, j |-> j]
    ELSE AttachSkipNoElse(hops, j + 1)

\* Lines 132-137 for the hops from j on that have no ip: geo is None, and no
\* lock is taken.  Stops at the first hop with an ip, or past the end.
RECURSIVE AttachSkip(_, _)
AttachSkip(hops, j) ==
    IF j > Len(hops) \/ TruthyStr(hops[j].ip) THEN [hops |-> hops, j |-> j]
    ELSE AttachSkip([hops EXCEPT ![j].geo = NoGeo], j + 1)

\* The attach loop from hop j to its next lock acquisition, or through the
\* return of process_target.
EnterAttach(rec, target, hops, j) ==
    LET a == AttachSkip(hops, j)
    IN  IF a.j > Len(hops)
        THEN [rec EXCEPT !.pc = "done", !.tr.hops = a.hops, !.i = 0,
                         !.ret = <<TargetResult(target, a.hops)>>]
        ELSE [rec EXCEPT !.pc = "attach", !.tr.hops = a.hops, !.i = a.j]

\* The top of the loop of line 124 at index i: the next ip, or on to the
\* attach loop.
NextIp(rec, target, i) ==
    IF i <= Len(rec.unique_ips) THEN [rec EXCEPT !.pc = "loop", !.i = i]
    ELSE EnterAttach(rec, target, rec.tr.hops, 1)

\* Lines 45-79 and 118-121: the output is parsed (float() may raise, and the
\* exception leaves process_target), then the loops start.
AfterProbe(rec, target, output) ==
    LET r == ParseOutput(output)
    IN  IF r.raised
        THEN [rec EXCEPT !.pc = "raised",
                         !.exc = "could not convert string to float"]
        ELSE NextIp([rec EXCEPT !.tr = [error |-> NoKey, hops |-> r.hops,
                                        raw |-> output],
                                !.unique_ips = UniqueIps(r.hops)],
                    target, 1)

\* Line 43, then 118-146 with no hops: {"error": str(e), "hops": []}, a dict
\* with no "raw" key (raw stays empty here; the error key tells).
AfterFailure(rec, target, e) ==
    NextIp([rec EXCEPT !.tr = [error |-> e, hops |-> <<>>, raw |-> <<>>]],
           target, 1)

(***************************************************************************)
(* run_all_traceroutes: the sort.                                          *)
(***************************************************************************)
\* ord() of the characters of the names.
Ord(c) == CASE c = "A" -> 65 [] c = "a" -> 97 [] c = "b" -> 98

\* Python's < on strings.
RECURSIVE StrLess(_, _)
StrLess(a, b) ==
    IF b = <<>> THEN FALSE
    ELSE IF a = <<>> THEN TRUE
    ELSE IF Head(a) = Head(b) THEN StrLess(Tail(a), Tail(b))
    ELSE Ord(Head(a)) < Ord(Head(b))

\* cat_order.get(category, 9)
CatRank(category) ==
    CASE category = "Quant APIs" -> 0
      [] category = "Cloud Providers" -> 1
      [] category = "NYSE & Financial" -> 2
      [] OTHER -> OtherRank

\* Python's < on the keys (cat_order.get(r["category"], 9), r["name"]).
KeyLess(r1, r2) ==
    \/ CatRank(r1.category) < CatRank(r2.category)
    \/ /\ CatRank(r1.category) = CatRank(r2.category)
       /\ StrLess(r1.name, r2.name)

\* list.sort is stable: r goes behind every element whose key is not greater.
RECURSIVE InsertSorted(_, _)
InsertSorted(sorted, r) ==
    IF sorted = <<>> THEN <<r>>
    ELSE IF KeyLess(r, Head(sorted)) THEN <<r>> \o sorted
    ELSE <<Head(sorted)>> \o InsertSorted(Tail(sorted), r)

RECURSIVE SortResults(_)
SortResults(rs) ==
    IF rs = <<>> THEN <<>>
    ELSE InsertSorted(SortResults(SubSeq(rs, 1, Len(rs) - 1)), rs[Len(rs)])

(***************************************************************************)
(* Inputs: addresses, lines and outputs of the probing utility, replies of *)
(* the geolocation provider, the target list.                              *)
(***************************************************************************)
IpPublic == <<"8", ".", "8", ".", "8", ".", "8">>

Ip10 == <<"1", "0", ".", "0", ".", "0", ".", "1">>

Ip192 == <<"1", "9", "2", ".", "1", "6", "8", ".", "1", ".", "1">>

Ip172 == <<"1", "7", "2", ".", "1", "6", ".", "0", ".", "1">>

Ms == <<"m", "s">>

Star == <<"*">>

HostGw == <<"g", "w">>

Paren(ip) == <<"(">> \o ip \o <<")">>

\* "traceroute to h": the header line of the utility.
HeaderLine == <<<<"t", "r", "a", "c", "e", "r", "o", "u", "t", "e">>,
                <<"t", "o">>, <<"h">>>>

\* "1  gw (8.8.8.8)  24.1 ms" then "2  8.8.8.8  0.0 ms": one address twice.
OutSameIp ==
    <<HeaderLine,
      <<<<"1">>, HostGw, Paren(IpPublic), <<"2", "4", ".", "1">>, Ms>>,
      <<<<"2">>, IpPublic, <<"0", ".", "0">>, Ms>>>>

\* One hop in each private range, then a hop that timed out.
OutPrivate ==
    <<HeaderLine,
      <<<<"1">>, Ip10, <<"1", ".", "5">>, Ms>>,
      <<<<"2">>, HostGw, Paren(Ip192), <<"2">>, Ms>>,
      <<<<"3">>, Ip172, <<"3", ".", "2", "5">>, Ms>>,
      <<<<"4">>, Star, Star, Star>>>>

\* "1  gw (8.8.8.8)  1.2.3 ms": a latency that float() does not accept.
OutBadFloat ==
    <<HeaderLine,
      <<<<"1">>, HostGw, Paren(IpPublic), <<"1", ".", "2", ".", "3">>, Ms>>>>

\* "1  * * *"
OutTimeoutHop == <<HeaderLine, <<<<"1">>, Star, Star, Star>>>>

\* What the primary invocation may print when it exits with status 0.
ProbeOutputs == {OutSameIp, OutPrivate, OutBadFloat}

\* What the fallback invocation may print when it exits with status 0.
FallbackOutputs == {OutTimeoutHop}

\* How subprocess.run may end: "ok" (exit status 0, output on stdout),
\* "rejected" (the utility does not know a flag: it exits with a non-zero
\* status and an empty stdout, and subprocess.run returns, check=True not
\* being given), TimeoutExpired, FileNotFoundError, or another OSError.
Raising == {"timeout", "missing", "oserror"}

\* str(e) of the exception of an outcome.
Message(kind) ==
    CASE kind = "timeout" -> "Command timed out after 60 seconds"
      [] kind = "missing" -> "No such file or directory: 'traceroute'"
      [] kind = "oserror" -> "Permission denied: 'traceroute'"

\* The geo dicts the provider may answer with "status": "success".
GeoVals == {"geo1", "geo2"}

\* How a lookup may fail: a status other than "success", a transport error
\* or timeout, a body that is not JSON, a success without "lat" or "lon".
LookupFailures == {"fail", "transport", "malformed", "nolat"}

\* The n-th (category, target) pair of the flattened targets file; host n
\* stands for the n-th host name.
CategoryAt(n) ==
    CASE n % 4 = 1 -> "Other"
      [] n % 4 = 2 -> "Misc"
      [] n % 4 = 3 -> "Quant APIs"
      [] OTHER     -> "Cloud Providers"

TargetAt(n) ==
    [category |-> CategoryAt(n),
     name     |-> IF n % 3 = 0 THEN <<"b">> ELSE <<"a">>,
     host     |-> n]

Tasks == 1..NTargets

\* results.json as an earlier run left it.
OldResults == <<StubResult(TargetAt(1), Message("oserror"))>>

(***************************************************************************)
(* State.                                                                  *)
(***************************************************************************)
VARIABLES
    opc,        \* where main and run_all_traceroutes stand
    fileExists, \* RESULTS_FILE.exists()
    fileData,   \* the content of RESULTS_FILE
    writes,     \* how many times RESULTS_FILE was written
    tasks,      \* the list `tasks` of (category, target) pairs
    results,    \* the list `results`
    task,       \* per pair: the state of its process_target call
    primary,    \* per pair: how the primary invocation ended ("" not yet)
    fallback,   \* per pair: how the fallback invocation ended ("" none)
    GEO_CACHE,  \* the dict GEO_CACHE
    GEO_LOCK,   \* the holder of GEO_LOCK, 0 when free
    delayDue,   \* a lookup has ended and no time.sleep(0.15) has since
    raw,        \* the hop parser alone: its input
    parsed,     \* the hop parser alone: its result (<<>> before the call)
    lookup      \* geolocate_ip alone: its argument, position and return value

vars == <<opc, fileExists, fileData, writes, tasks, results, task, primary,
          fallback, GEO_CACHE, GEO_LOCK, delayDue, raw, parsed, lookup>>

orchVars == <<opc, fileExists, fileData, writes, tasks, results>>

parseVars == <<raw, parsed>>

\* No call of geolocate_ip alone.
NoLookup == [ip |-> None, pc |-> "none", ret |-> NoGeo]

NewTask ==
    [pc         |-> "new",
     tr         |-> [error |-> NoKey, hops |-> <<>>, raw |-> <<>>],
     unique_ips |-> <<>>,
     i          |-> 0,
     geo        |-> NoGeo,
     exc        |-> "",
     ret        |-> <<>>]

Init ==
    /\ opc = "main"
    /\ fileExists \in BOOLEAN
    /\ fileData = IF fileExists THEN OldResults ELSE <<>>
    /\ writes = 0
    /\ tasks = [n \in Tasks |-> TargetAt(n)]
    /\ results = <<>>
    /\ task = [t \in Tasks |-> NewTask]
    /\ primary = [t \in Tasks |-> ""]
    /\ fallback = [t \in Tasks |-> ""]
    /\ GEO_CACHE = <<>>
    /\ GEO_LOCK = 0
    /\ delayDue = FALSE
    /\ raw = <<>>
    /\ parsed = <<>>
    /\ lookup = NoLookup

(***************************************************************************)
(* main and run_all_traceroutes.                                           *)
(***************************************************************************)
\* Lines 626-630: the artifact exists and is loaded.
MainLoad ==
    /\ opc = "main"
    /\ fileExists
    /\ results' = fileData
    /\ opc' = "html"
    /\ UNCHANGED <<fileExists, fileData, writes, tasks, task, primary,
                   fallback, GEO_CACHE, GEO_LOCK, delayDue, raw, parsed,
                   lookup>>

\* Lines 631-634 taken whether or not the artifact exists.
MainRunAlways ==
    /\ opc = "main"
    /\ results' = <<>>
    /\ task' = [t \in Tasks |-> [task[t] EXCEPT !.pc = "queued"]]
    /\ opc' = "collect"
    /\ UNCHANGED <<fileExists, fileData, writes, tasks, primary, fallback,
                   GEO_CACHE, GEO_LOCK, delayDue, raw, parsed, lookup>>

\* Lines 631-634 and 151-162: no artifact; the pairs are submitted.
MainRun ==
    /\ opc = "main"
    /\ ~fileExists
    /\ results' = <<>>
    /\ task' = [t \in Tasks |-> [task[t] EXCEPT !.pc = "queued"]]
    /\ opc' = "collect"
    /\ UNCHANGED <<fileExists, fileData, writes, tasks, primary, fallback,
                   GEO_CACHE, GEO_LOCK, delayDue, raw, parsed, lookup>>

\* Collected with a handler that builds the stub without its error.
CollectedNoError(rec, target) ==
    IF rec.pc = "done" THEN rec.ret[1] ELSE TargetResult(target, <<>>)

\* Lines 163-180: as_completed yields a finished future; its result, or the
\* stub for its exception, is appended.
Collected(rec, target) ==
    IF rec.pc = "done" THEN rec.ret[1] ELSE StubResult(target, rec.exc)

Collect(t) ==
    /\ opc = "collect"
    /\ task[t].pc \in {"done", "raised"}
    /\ results' = Append(results, Collected(task[t], tasks[t]))
    /\ task' = [task EXCEPT ![t].pc = "collected"]
    /\ UNCHANGED <<opc, fileExists, fileData, writes, tasks, primary,
                   fallback, GEO_CACHE, GEO_LOCK, delayDue, raw, parsed,
                   lookup>>

\* Sort without waiting for every future: the loop is left at the first one.
SortEarly ==
    /\ opc = "collect"
    /\ \E t \in Tasks : task[t].pc = "collected"
    /\ results' = SortResults(results)
    /\ opc' = "write"
    /\ UNCHANGED <<fileExists, fileData, writes, tasks, task, primary,
                   fallback, GEO_CACHE, GEO_LOCK, delayDue, raw, parsed,
                   lookup>>

\* Lines 180-184: every future was yielded, the executor is shut down and
\* the results are sorted.
Sort ==
    /\ opc = "collect"
    /\ \A t \in Tasks : task[t].pc = "collected"
    /\ results' = SortResults(results)
    /\ opc' = "write"
    /\ UNCHANGED <<fileExists, fileData, writes, tasks, task, primary,
                   fallback, GEO_CACHE, GEO_LOCK, delayDue, raw, parsed,
                   lookup>>

\* Lines 186-189: the artifact is written and the results are returned.
Persist ==
    /\ opc = "write"
    /\ fileData' = results
    /\ fileExists' = TRUE
    /\ writes' = writes + 1
    /\ opc' = "html"
    /\ UNCHANGED <<tasks, results, task, primary, fallback, GEO_CACHE,
                   GEO_LOCK, delayDue, raw, parsed, lookup>>

\* Lines 636-643: the dashboard is generated and served.
GenerateHtml ==
    /\ opc = "html"
    /\ opc' = "serve"
    /\ UNCHANGED <<fileExists, fileData, writes, tasks, results, task,
                   primary, fallback, GEO_CACHE, GEO_LOCK, delayDue, raw,
                   parsed, lookup>>

(***************************************************************************)
(* A worker of the pool running process_target for pair t.  A step goes    *)
(* from one blocking or shared operation to the next: an invocation of the *)
(* utility, an acquisition of GEO_LOCK, the body of a `with GEO_LOCK`, the *)
(* network call, the sleep.                                                *)
(***************************************************************************)
\* The pairs a worker thread is running.
Busy ==
    {t \in Tasks :
        task[t].pc \notin {"new", "queued", "done", "raised", "collected"}}

\* Lines 29-35 with `except Exception` at line 35: every exception of the
\* primary invocation leads to the fallback.
PrimaryStepCatchAll(rec, target, kind, output) ==
    IF kind \in Raising THEN [rec EXCEPT !.pc = "fallback"]
    ELSE AfterProbe(rec, target, output)

\* Lines 29-35 (and on to 124 when the invocation returns): a free worker
\* takes the pair and makes the primary invocation, with -w 2.
PrimaryStep(rec, target, kind, output) ==
    IF kind \in {"timeout", "missing"} THEN [rec EXCEPT !.pc = "fallback"]
    ELSE IF kind = "oserror"
        THEN [rec EXCEPT !.pc = "raised", !.exc = Message(kind)]
    ELSE AfterProbe(rec, target, output)

Primary(t) ==
    /\ task[t].pc = "queued"
    /\ Cardinality(Busy) < MaxWorkers
    /\ \E kind \in {"ok", "rejected"} \cup Raising :
         \E output \in IF kind = "ok" THEN ProbeOutputs ELSE {<<>>} :
            /\ task' = [task EXCEPT
                          ![t] = PrimaryStep(task[t], tasks[t], kind, output)]
            /\ primary' = [primary EXCEPT ![t] = kind]
    /\ UNCHANGED <<orchVars, fallback, GEO_CACHE, GEO_LOCK, delayDue,
                   parseVars, lookup>>

\* Lines 36-43: the fallback invocation, without -w 2; any exception ends
\* run_traceroute with an error and no hops.
FallbackStep(rec, target, kind, output) ==
    IF kind \in Raising THEN AfterFailure(rec, target, Message(kind))
    ELSE AfterProbe(rec, target, output)

Fallback(t) ==
    /\ task[t].pc = "fallback"
    /\ \E kind \in {"ok", "rejected"} \cup Raising :
         \E output \in IF kind = "ok" THEN FallbackOutputs ELSE {<<>>} :
            /\ task' = [task EXCEPT
                          ![t] = FallbackStep(task[t], tasks[t], kind, output)]
            /\ fallback' = [fallback EXCEPT ![t] = kind]
    /\ UNCHANGED <<orchVars, primary, GEO_CACHE, GEO_LOCK, delayDue,
                   parseVars, lookup>>

\* Lines 125, 86, 105 and 134: `with GEO_LOCK` is entered.
AcquiredPc(pc) ==
    CASE pc = "loop"      -> "chk"
      [] pc = "geo_lock"  -> "geo_chk"
      [] pc = "ins_lock"  -> "ins"
      [] pc = "attach"    -> "att"

Acquire(t) ==
    /\ task[t].pc \in {"loop", "geo_lock", "ins_lock", "attach"}
    /\ GEO_LOCK = 0
    /\ GEO_LOCK' = t
    /\ task' = [task EXCEPT ![t].pc = AcquiredPc(task[t].pc)]
    /\ UNCHANGED <<orchVars, primary, fallback, GEO_CACHE, delayDue,
                   parseVars, lookup>>

\* Lines 126-128 and 84-85: under the lock, a cached ip is skipped; the
\* lock is released; geolocate_ip is called and returns at once for an ip
\* it rejects.
CheckStep(rec, target, cache) ==
    LET ip == rec.unique_ips[rec.i]
    IN  IF ip \in DOMAIN cache THEN NextIp(rec, target, rec.i + 1)
        ELSE IF RejectedLocally(ip) THEN [rec EXCEPT !.pc = "sleep"]
        ELSE [rec EXCEPT !.pc = "geo_lock"]

\* Lines 125-127 with the lock taken by acquire() and released only on the
\* way to the call of line 128: the `continue` of line 127 leaves it held.
CheckCacheHeldOnSkip(t) ==
    /\ task[t].pc = "chk"
    /\ task' = [task EXCEPT ![t] = CheckStep(task[t], tasks[t], GEO_CACHE)]
    /\ GEO_LOCK' = IF task[t].unique_ips[task[t].i] \in DOMAIN GEO_CACHE
                 THEN t ELSE 0
    /\ UNCHANGED <<orchVars, primary, fallback, GEO_CACHE, delayDue,
                   parseVars, lookup>>

CheckCache(t) ==
    /\ task[t].pc = "chk"
    /\ task' = [task EXCEPT ![t] = CheckStep(task[t], tasks[t], GEO_CACHE)]
    /\ GEO_LOCK' = 0
    /\ UNCHANGED <<orchVars, primary, fallback, GEO_CACHE, delayDue,
                   parseVars, lookup>>

\* Lines 87-92: under the lock, a cached value is returned; the lock is
\* released; on a miss the request is sent.
LookupStep(rec, cache) ==
    IF rec.unique_ips[rec.i] \in DOMAIN cache THEN [rec EXCEPT !.pc = "sleep"]
    ELSE [rec EXCEPT !.pc = "net"]

\* Lines 87-92 with the request sent inside the `with GEO_LOCK` block: on a
\* miss the lock stays held.
LookupCacheHoldingLock(t) ==
    /\ task[t].pc = "geo_chk"
    /\ task' = [task EXCEPT ![t] = LookupStep(task[t], GEO_CACHE)]
    /\ GEO_LOCK' = IF task'[t].pc = "net" THEN t ELSE 0
    /\ UNCHANGED <<orchVars, primary, fallback, GEO_CACHE, delayDue,
                   parseVars, lookup>>

LookupCache(t) ==
    /\ task[t].pc = "geo_chk"
    /\ task' = [task EXCEPT ![t] = LookupStep(task[t], GEO_CACHE)]
    /\ GEO_LOCK' = 0
    /\ UNCHANGED <<orchVars, primary, fallback, GEO_CACHE, delayDue,
                   parseVars, lookup>>

\* Lines 92-104 without the test of line 95: whatever the provider answered
\* goes on to the insertion.
ReplyStepNoStatusTest(rec, reply) ==
    [rec EXCEPT !.pc = "ins_lock", !.geo = reply]

\* Lines 92-104 and 108-110: the provider answers, or the call fails; only
\* "status": "success" with its fields goes on to the insertion.
ReplyStep(rec, reply) ==
    IF reply \in GeoVals THEN [rec EXCEPT !.pc = "ins_lock", !.geo = reply]
    ELSE [rec EXCEPT !.pc = "sleep"]

NetworkReply(t) ==
    /\ task[t].pc = "net"
    /\ \E reply \in GeoVals \cup LookupFailures :
         task' = [task EXCEPT ![t] = ReplyStep(task[t], reply)]
    /\ delayDue' = TRUE
    /\ UNCHANGED <<orchVars, primary, fallback, GEO_CACHE, GEO_LOCK,
                   parseVars, lookup>>

\* Lines 106-107: under the lock, the geo is stored; the lock is released.
InsertStep(cache, ip, geo) == CachePut(cache, ip, geo)

InsertCache(t) ==
    /\ task[t].pc = "ins"
    /\ GEO_CACHE' = InsertStep(GEO_CACHE, task[t].unique_ips[task[t].i],
                               task[t].geo)
    /\ task' = [task EXCEPT ![t].pc = "sleep", ![t].geo = NoGeo]
    /\ GEO_LOCK' = 0
    /\ UNCHANGED <<orchVars, primary, fallback, delayDue, parseVars, lookup>>

\* Line 129: time.sleep(0.15) ends; on to the next ip.
Sleep(t) ==
    /\ task[t].pc = "sleep"
    /\ task' = [task EXCEPT ![t] = NextIp(task[t], tasks[t], task[t].i + 1)]
    /\ delayDue' = FALSE
    /\ UNCHANGED <<orchVars, primary, fallback, GEO_CACHE, GEO_LOCK,
                   parseVars, lookup>>

\* Line 135: under the lock, the hop gets GEO_CACHE.get(ip); the lock is
\* released; on to the next hop, or to the return.
AttachStep(rec, target, cache) ==
    EnterAttach(rec, target,
                [rec.tr.hops EXCEPT
                    ![rec.i].geo = CacheGet(cache, rec.tr.hops[rec.i].ip)],
                rec.i + 1)

AttachGeo(t) ==
    /\ task[t].pc = "att"
    /\ task' = [task EXCEPT ![t] = AttachStep(task[t], tasks[t], GEO_CACHE)]
    /\ GEO_LOCK' = 0
    /\ UNCHANGED <<orchVars, primary, fallback, GEO_CACHE, delayDue,
                   parseVars, lookup>>

Worker(t) ==
    \/ Primary(t)
    \/ Fallback(t)
    \/ Acquire(t)
    \/ CheckCache(t)
    \/ LookupCache(t)
    \/ NetworkReply(t)
    \/ InsertCache(t)
    \/ Sleep(t)
    \/ AttachGeo(t)

Next ==
    \/ MainLoad
    \/ MainRun
    \/ \E t \in Tasks : Worker(t)
    \/ \E t \in Tasks : Collect(t)
    \/ Sort
    \/ Persist
    \/ GenerateHtml

Spec == Init /\ [][Next]_vars

\* The steps of main and of the collecting loop of run_all_traceroutes.
Orchestrator ==
    \/ MainLoad
    \/ MainRun
    \/ \E t \in Tasks : Collect(t)
    \/ Sort
    \/ Persist
    \/ GenerateHtml

\* For the runs with fairness, one outcome of each kind: the exceptions
\* line 35 catches are drawn as the timeout and the others as the OSError,
\* an invocation that returns as one with output, and every successful
\* lookup gives the same geo.  What is left out goes the way of an outcome
\* that is kept.
OneOfEachKind ==
    /\ \A t \in Tasks : primary'[t] \in {"", "ok", "timeout", "oserror"}
    /\ \A t \in Tasks : fallback'[t] \in {"", "ok", "timeout"}
    /\ \A t \in Tasks : task'[t].geo \in {NoGeo, "geo1"}

WorkerLive(t) == Worker(t) /\ OneOfEachKind

NextLive ==
    \/ MainLoad
    \/ MainRun
    \/ \E t \in Tasks : WorkerLive(t)
    \/ \E t \in Tasks : Collect(t)
    \/ Sort
    \/ Persist
    \/ GenerateHtml

\* Scheduling: the main thread and every worker thread that can take a step
\* takes one in the end.  For Primary, Fallback and NetworkReply this is the
\* timeout of subprocess.run (60 s, lines 32 and 40) and of urlopen (5 s,
\* line 92): the call returns or raises.  A worker waiting for GEO_LOCK
\* takes it once it stays free; no stronger fairness of the lock is taken.
Fairness ==
    /\ WF_vars(Orchestrator)
    /\ \A t \in Tasks : WF_vars(WorkerLive(t))

SpecLive == Init /\ [][NextLive]_vars /\ Fairness

(***************************************************************************)
(* The hop parser alone, as a function of a raw probe text.                *)
(***************************************************************************)
IpExample == <<"9", "3", ".", "1", "8", "4", ".", "2", "1", "6", ".", "3", "4">>

HostExample == <<"c", "o", "r", "e", "1", ".", "e", "x", "a", "m", "p", "l",
                 "e", ".", "n", "e", "t">>

Latency241 == <<"2", "4", ".", "1">>

\* The lines a raw text is made of.
LinePool ==
    {<<>>,                                              \* a blank line
     HeaderLine,
     <<<<"3">>, HostExample, Paren(IpExample), Latency241, Ms>>,
     <<<<"2">>, IpPublic, <<"0", ".", "0">>, Ms>>,
     <<<<"4">>, IpPublic, <<"1", ".", "5", "m", "s">>>>,  \* "4 8.8.8.8 1.5ms"
     <<<<"7">>, Star>>,
     <<<<"5">>, HostGw, Star>>,                         \* "5 gw *"
     <<<<"8">>, IpPublic, Star>>,                       \* "8 8.8.8.8 *"
     <<HostGw, Star>>,                                  \* "gw *"
     <<<<"6">>, HostGw, Paren(IpPublic), Latency241>>,  \* no "ms"
     <<<<"1">>, HostGw, Paren(IpPublic), <<"1", ".", "2", ".", "3">>, Ms>>,
     <<<<"1">>, IpPublic, <<".">>, Ms>>}

RECURSIVE TextsOfLen(_)
TextsOfLen(n) ==
    IF n = 0 THEN {<<>>}
    ELSE {<<l>> \o rest : l \in LinePool, rest \in TextsOfLen(n - 1)}

\* The raw texts: a first line and up to MaxLines lines after it, or nothing.
RawTexts == UNION {TextsOfLen(n) : n \in 0..(MaxLines + 1)}

InitParse ==
    /\ raw \in RawTexts
    /\ parsed = <<>>
    /\ opc = "main"
    /\ fileExists = TRUE
    /\ fileData = OldResults
    /\ writes = 0
    /\ tasks = [n \in Tasks |-> TargetAt(n)]
    /\ results = <<>>
    /\ task = [t \in Tasks |-> NewTask]
    /\ primary = [t \in Tasks |-> ""]
    /\ fallback = [t \in Tasks |-> ""]
    /\ GEO_CACHE = <<>>
    /\ GEO_LOCK = 0
    /\ delayDue = FALSE
    /\ lookup = NoLookup

\* Lines 45-79 on `raw`.
ParseRaw ==
    /\ parsed = <<>>
    /\ parsed' = <<ParseOutput(raw)>>
    /\ UNCHANGED <<orchVars, task, primary, fallback, GEO_CACHE, GEO_LOCK,
                   delayDue, raw, lookup>>

NextParse == ParseRaw

SpecParse == InitParse /\ [][NextParse]_vars

(***************************************************************************)
(* geolocate_ip alone, as one call on an address, with GEO_CACHE empty or  *)
(* holding the address.                                                    *)
(***************************************************************************)
\* First and second parts of the addresses the call is made on.
FirstParts ==
    {<<"1">>, <<"8">>, <<"1", "0">>, <<"1", "7">>, <<"1", "0", "0">>,
     <<"1", "7", "2">>, <<"1", "9", "2">>}

SecondParts ==
    {<<"0">>, <<"1">>, <<"1", "5">>, <<"1", "6">>, <<"3", "1">>,
     <<"3", "2">>, <<"1", "6", "8">>, <<"2", "1", "7">>}

\* a.b.0.1
Address(a, b) == a \o <<".">> \o b \o <<".", "0", ".", "1">>

Addresses == {Address(a, b) : a \in FirstParts, b \in SecondParts}

InitLookup ==
    /\ \E a \in Addresses : lookup = [ip |-> a, pc |-> "call", ret |-> NoGeo]
    /\ GEO_CACHE \in {<<>>, CachePut(<<>>, lookup.ip, "geo1")}
    /\ raw = <<>>
    /\ parsed = <<>>
    /\ opc = "main"
    /\ fileExists = TRUE
    /\ fileData = OldResults
    /\ writes = 0
    /\ tasks = [n \in Tasks |-> TargetAt(n)]
    /\ results = <<>>
    /\ task = [t \in Tasks |-> NewTask]
    /\ primary = [t \in Tasks |-> ""]
    /\ fallback = [t \in Tasks |-> ""]
    /\ GEO_LOCK = 0
    /\ delayDue = FALSE

\* Lines 84-85: the address is rejected and None returned.
LookupReject ==
    /\ lookup.pc = "call"
    /\ RejectedLocally(lookup.ip)
    /\ lookup' = [lookup EXCEPT !.pc = "rejected", !.ret = NoGeo]
    /\ UNCHANGED <<orchVars, task, primary, fallback, GEO_CACHE, GEO_LOCK,
                   delayDue, parseVars>>

\* Lines 86-88: the cached geo is returned.
LookupHit ==
    /\ lookup.pc = "call"
    /\ ~RejectedLocally(lookup.ip)
    /\ lookup.ip \in DOMAIN GEO_CACHE
    /\ lookup' = [lookup EXCEPT !.pc = "returned",
                                !.ret = CacheGet(GEO_CACHE, lookup.ip)]
    /\ UNCHANGED <<orchVars, task, primary, fallback, GEO_CACHE, GEO_LOCK,
                   delayDue, parseVars>>

\* Lines 86-92: nothing is cached and the request is sent.
LookupMiss ==
    /\ lookup.pc = "call"
    /\ ~RejectedLocally(lookup.ip)
    /\ lookup.ip \notin DOMAIN GEO_CACHE
    /\ lookup' = [lookup EXCEPT !.pc = "net"]
    /\ UNCHANGED <<orchVars, task, primary, fallback, GEO_CACHE, GEO_LOCK,
                   delayDue, parseVars>>

\* Lines 92-110: the provider answers, or the call fails.
LookupReply ==
    /\ lookup.pc = "net"
    /\ \E reply \in GeoVals \cup LookupFailures :
         IF reply \in GeoVals
         THEN /\ GEO_CACHE' = InsertStep(GEO_CACHE, lookup.ip, reply)
              /\ lookup' = [lookup EXCEPT !.pc = "returned", !.ret = reply]
         ELSE /\ GEO_CACHE' = GEO_CACHE
              /\ lookup' = [lookup EXCEPT !.pc = "returned", !.ret = NoGeo]
    /\ UNCHANGED <<orchVars, task, primary, fallback, GEO_LOCK, delayDue,
                   parseVars>>

NextLookup ==
    \/ LookupReject
    \/ LookupHit
    \/ LookupMiss
    \/ LookupReply

SpecLookup == InitLookup /\ [][NextLookup]_vars

(***************************************************************************)
(* Vocabulary of the properties.                                           *)
(***************************************************************************)
\* The parts of a string between its dots.
RECURSIVE SplitDots(_, _)
SplitDots(s, cur) ==
    IF s = <<>> THEN <<cur>>
    ELSE IF Head(s) = "." THEN <<cur>> \o SplitDots(Tail(s), <<>>)
    ELSE SplitDots(Tail(s), Append(cur, Head(s)))

\* The n-th part of a dotted address, as a number.
Octet(ip, n) == IntOf(SplitDots(ip, <<>>)[n])

\* Membership in 10.0.0.0/8, 192.168.0.0/16 or 172.16.0.0/12.
IsPrivate(ip) ==
    /\ IsIPv4(ip)
    /\ \/ Octet(ip, 1) = 10
       \/ Octet(ip, 1) = 192 /\ Octet(ip, 2) = 168
       \/ Octet(ip, 1) = 172 /\ Octet(ip, 2) \in 16..31

\* The addresses the outputs of the utility show, and the private ones
\* among them.
HopIpsOf(output) ==
    LET hops == ParseOutput(output).hops
    IN  {hops[k].ip : k \in 1..Len(hops)} \ {None}

OutputIps == UNION {HopIpsOf(o) : o \in ProbeOutputs \cup FallbackOutputs}

PrivateIps == {ip \in OutputIps : IsPrivate(ip)}

\* process_target has returned for pair t.
Returned(t) ==
    task[t].pc = "done" \/ (task[t].pc = "collected" /\ task[t].ret # <<>>)

\* The exception of pair t left process_target.
Raised(t) == task[t].exc # ""

\* The ip the loop of line 124 of pair t stands at.
CurrentIp(t) == task[t].unique_ips[task[t].i]

\* The pairs whose geolocation request is in flight.
InFlight == {t \in Tasks : task[t].pc = "net"}

\* run_all_traceroutes has written the artifact.
RunPersisted == writes > 0

(***************************************************************************)
(* C1.  Two hops of one target with the same ip carry, once process_target *)
(* has attached geo, equal geo values (or both none), whatever the other   *)
(* workers do to GEO_CACHE during the attach loop.                         *)
(***************************************************************************)
C1_SameIpSameGeo ==
    \A t \in Tasks :
        Returned(t) =>
            \A a, b \in 1..Len(task[t].ret[1].hops) :
                task[t].ret[1].hops[a].ip = task[t].ret[1].hops[b].ip
                    => task[t].ret[1].hops[a].geo = task[t].ret[1].hops[b].geo

(***************************************************************************)
(* C2.  Once GEO_CACHE holds a value for an ip, no step changes or removes *)
(* it: a second successful lookup of the ip does not overwrite the first.  *)
(***************************************************************************)
C2_NoOverwrite ==
    [][\A ip \in DOMAIN GEO_CACHE :
          ip \in DOMAIN GEO_CACHE' /\ GEO_CACHE'[ip] = GEO_CACHE[ip]]_vars

\* The hosts of a list of results, in its order.
HostsOf(rs) == [k \in 1..Len(rs) |-> rs[k].host]

\* What the sort gives when the workers complete in submission order.
SubmissionOrderSorted ==
    SortResults([n \in Tasks |-> StubResult(tasks[n], "")])

(***************************************************************************)
(* C3.  The sequence run_all_traceroutes returns and persists is the same  *)
(* for every completion order of the workers.  Completion in submission    *)
(* order is one of them, so the persisted targets (told apart by host) are *)
(* always in the order that one gives.                                     *)
(***************************************************************************)
C3_OrderIndependent ==
    RunPersisted =>
        /\ HostsOf(fileData) = HostsOf(SubmissionOrderSorted)
        /\ HostsOf(results) = HostsOf(SubmissionOrderSorted)

\* The primary invocation raised what line 35 catches, the fallback raised.
BothInvocationsFailed(t) ==
    primary[t] \in {"timeout", "missing"} /\ fallback[t] \in Raising

(***************************************************************************)
(* C4.  When both invocations of the utility fail for a target, its        *)
(* TargetResult has hopCount 0, no hops, no totalLatency and a non-empty   *)
(* error.                                                                  *)
(***************************************************************************)
C4_ProbeErrorPropagates ==
    \A t \in Tasks :
        Returned(t) /\ BothInvocationsFailed(t) =>
            /\ task[t].ret[1].hop_count = 0
            /\ task[t].ret[1].hops = <<>>
            /\ task[t].ret[1].total_rtt = None
            /\ task[t].ret[1].error \notin {NoKey, ""}

(***************************************************************************)
(* C5.  On every raw probe text the hop parser does not raise: it reaches  *)
(* the end of the input, each line after the header having added one hop   *)
(* or none.                                                                *)
(***************************************************************************)
C5_ParserNeverRaises ==
    parsed # <<>> =>
        /\ ~parsed[1].raised
        /\ Len(parsed[1].hops) <= Len(BodyLines(raw))

(***************************************************************************)
(* C6.  Geolocation lookups are serialized globally: at most one request   *)
(* is in flight, and a request starts only when the rate-limit delay has   *)
(* been taken since the last lookup ended.  (delayDue while exactly one    *)
(* request is in flight means that this request started undelayed: had     *)
(* another lookup ended during it, two would have been in flight.)         *)
(***************************************************************************)
C6_LookupsSerialized ==
    /\ Cardinality(InFlight) <= 1
    /\ InFlight # {} => ~delayDue

\* r is the stub of pair t, with the message of its exception.
IsStubFor(r, t) ==
    /\ r.name = tasks[t].name /\ r.host = tasks[t].host
    /\ r.category = tasks[t].category
    /\ r.hop_count = 0 /\ r.hops = <<>> /\ r.total_rtt = None
    /\ r.error = task[t].exc /\ r.error \notin {NoKey, ""}

(***************************************************************************)
(* C7.  A failure raised inside process_target for one target aborts       *)
(* neither another worker nor the run: the failing target yields the stub  *)
(* (hopCount 0, no hops, no totalLatency, error set), every other target   *)
(* yields its own TargetResult, and the run goes on to sort and persist    *)
(* one result per target.                                                  *)
(***************************************************************************)
C7_FailureIsolated ==
    /\ \A t \in Tasks :
          task[t].pc = "collected" =>
              IF Raised(t)
              THEN \E k \in 1..Len(results) : IsStubFor(results[k], t)
              ELSE \E k \in 1..Len(results) : results[k] = task[t].ret[1]
    /\ opc = "write" \/ RunPersisted => Len(results) = NTargets
    /\ \A t \in Tasks :
          Raised(t) <=> task[t].pc = "raised"
                        \/ (task[t].pc = "collected" /\ task[t].ret = <<>>)

\* A persisted run in which one target failed and another has hops.
C7_Witness ==
    /\ opc = "serve"
    /\ RunPersisted
    /\ \E t, u \in Tasks :
          /\ Raised(t)
          /\ ~Raised(u)
          /\ \E k \in 1..Len(fileData) : IsStubFor(fileData[k], t)
          /\ \E k \in 1..Len(fileData) :
                fileData[k] = task[u].ret[1] /\ fileData[k].hop_count > 0

\* r mirrors the identity fields of the target.
SameTarget(r, target) ==
    r.name = target.name /\ r.host = target.host
        /\ r.category = target.category

\* rs holds as many results for each target as the work list holds pairs
\* of it.
OnePerTarget(rs) ==
    /\ Len(rs) = NTargets
    /\ \A t \in Tasks :
          Cardinality({k \in 1..Len(rs) : SameTarget(rs[k], tasks[t])})
              = Cardinality({u \in Tasks : tasks[u] = tasks[t]})

\* No result stands before one of a smaller key.
IsSorted(rs) ==
    \A a, b \in 1..Len(rs) : a < b => ~KeyLess(rs[b], rs[a])

\* No worker runs a pair and every future was yielded.
AllWorkersFinished ==
    Busy = {} /\ \A t \in Tasks : task[t].pc = "collected"

InsideGeolocate(t) ==
    task[t].pc \in {"geo_lock", "geo_chk", "net", "ins_lock", "ins"}

\* Every ip of the hops is one of OutputIps, and the private ones carry no geo.
NoPrivateGeo(hops) ==
    \A k \in 1..Len(hops) :
        /\ hops[k].ip \in OutputIps \cup {None}
        /\ hops[k].ip \in PrivateIps => hops[k].geo \in {NoKey, NoGeo}

(***************************************************************************)
(* C9.  For an address in 10.0.0.0/8, 192.168.0.0/16 or 172.16.0.0/12      *)
(* geolocate_ip goes neither to the network nor to GEO_CACHE (it is never  *)
(* past its first test with such an ip), GEO_CACHE never holds such an ip, *)
(* and no hop with such an ip carries a geo.                               *)
(***************************************************************************)
C9_PrivateNeverResolved ==
    /\ \A t \in Tasks : InsideGeolocate(t) => CurrentIp(t) \notin PrivateIps
    /\ DOMAIN GEO_CACHE \cap PrivateIps = {}
    /\ \A t \in Tasks : NoPrivateGeo(task[t].tr.hops)
    /\ \A k \in 1..Len(results) : NoPrivateGeo(results[k].hops)
    /\ \A k \in 1..Len(fileData) : NoPrivateGeo(fileData[k].hops)

\* A persisted result whose hops lie in the three ranges, none with a geo,
\* while GEO_CACHE holds a public address.
C9_Witness ==
    /\ RunPersisted
    /\ GEO_CACHE # <<>>
    /\ \E k \in 1..Len(fileData) :
          /\ \E h \in 1..Len(fileData[k].hops) :
                Octet(fileData[k].hops[h].ip, 1) = 10
          /\ \E h \in 1..Len(fileData[k].hops) :
                Octet(fileData[k].hops[h].ip, 1) = 192
          /\ \E h \in 1..Len(fileData[k].hops) :
                Octet(fileData[k].hops[h].ip, 1) = 172
          /\ \A h \in 1..Len(fileData[k].hops) :
                /\ fileData[k].hops[h].geo = NoGeo
                /\ fileData[k].hops[h].ip \in PrivateIps \cup {None}

(***************************************************************************)
(* C10.  The fallback invocation is made whenever the primary invocation   *)
(* fails: the executable is missing, the invocation times out, or the      *)
(* utility rejects the primary flag set.                                   *)
(***************************************************************************)
C10_FallbackOnEveryFailure ==
    \A t \in Tasks :
        primary[t] \in {"missing", "timeout", "rejected"} =>
            task[t].pc = "fallback" \/ fallback[t] # ""

\* The positions at which a worker is inside a `with GEO_LOCK` block: the
\* membership test of line 126, the read of lines 87-88, the insertion of
\* line 106 and the read of line 135.
LockedPcs == {"chk", "geo_chk", "ins", "att"}

(***************************************************************************)
(* C11.  No worker holds GEO_LOCK while its geolocation request is in      *)
(* flight or while it sleeps the rate-limit delay: the holder of the lock  *)
(* is always a worker at a cache membership test, a cache read or a cache  *)
(* insertion, and a worker at one of these always is the holder.           *)
(***************************************************************************)
C11_LockOnlyAroundCache ==
    /\ GEO_LOCK \in Tasks \cup {0}
    /\ \A t \in Tasks : GEO_LOCK = t <=> task[t].pc \in LockedPcs
    /\ \A t \in Tasks : task[t].pc \in {"net", "sleep"} => GEO_LOCK # t

\* One worker inserts under the lock while the request of another worker,
\* which holds no lock, is in flight.
C11_Witness ==
    \E t, u \in Tasks :
        /\ task[t].pc = "net"
        /\ task[u].pc = "ins"
        /\ GEO_LOCK = u

\* A line only the third pattern of the parser matches.
IsTimeoutLine(toks) ==
    MatchTimeout(toks) /\ ~MatchNamed(toks) /\ ~MatchBare(toks)

\* The lines of an output that give a hop, in their order.
HopLines(output) ==
    SelectSeq(BodyLines(output),
              LAMBDA toks : MatchNamed(toks) \/ MatchBare(toks)
                                \/ MatchTimeout(toks))

\* For each output of the utility, the positions, among its hops, of the
\* hops that come from timeout lines.
TimeoutHopIndexes ==
    [o \in ProbeOutputs \cup FallbackOutputs \cup {<<>>} |->
        {k \in 1..Len(HopLines(o)) : IsTimeoutLine(HopLines(o)[k])}]

\* The hops without ip of a returned result have neither latency nor geo.
NoIpNoGeo(hops) ==
    \A k \in 1..Len(hops) :
        hops[k].ip = None => hops[k].geo = NoGeo /\ hops[k].rtt_ms = None

(***************************************************************************)
(* C12.  Every hop that comes from a timeout line has no ip, no latency    *)
(* and the host "*"; and in every TargetResult (returned by a worker,      *)
(* collected, or written to the artifact) a hop with no ip has no geo and  *)
(* no latency.                                                             *)
(***************************************************************************)
C12_TimeoutHopShape ==
    /\ \A t \in Tasks :
          \A k \in TimeoutHopIndexes[task[t].tr.raw] :
              /\ k <= Len(task[t].tr.hops)
              /\ task[t].tr.hops[k].ip = None
              /\ task[t].tr.hops[k].rtt_ms = None
              /\ task[t].tr.hops[k].host = Star
    /\ \A t \in Tasks : Returned(t) => NoIpNoGeo(task[t].ret[1].hops)
    /\ \A k \in 1..Len(results) : NoIpNoGeo(results[k].hops)
    /\ \A k \in 1..Len(fileData) : NoIpNoGeo(fileData[k].hops)

\* A written result of four hops whose last one comes from the line
\* "4 * * *": it has the host "*" and neither ip, latency nor geo.
C12_Witness ==
    /\ RunPersisted
    /\ \E k \in 1..Len(fileData) :
          /\ fileData[k].hop_count = 4
          /\ fileData[k].hops[4] =
                [hop |-> 4, host |-> Star, ip |-> None, rtt_ms |-> None,
                 geo |-> NoGeo]
    /\ \E t \in Tasks : 4 \in TimeoutHopIndexes[task[t].tr.raw]

\* Pair t is between a "success" answer of the provider and the insertion
\* of its geo (lines 95-105).
HasSuccessReply(t) == task[t].pc \in {"ins_lock", "ins"}

\* In this step the call of pair t ends in a failure: the request was in
\* flight and geolocate_ip returns through lines 108-110.
LookupFails(t) == task[t].pc = "net" /\ task'[t].pc = "sleep"

\* In this step the provider answers pair t with "status": "success".
LookupSucceeds(t) == task[t].pc = "net" /\ task'[t].pc = "ins_lock"

(***************************************************************************)
(* C13.  A geolocate_ip call that ends in a transport error, a timeout, a  *)
(* malformed response or a non-success status returns no geo and leaves    *)
(* GEO_CACHE as it is; an ip enters GEO_CACHE only through the insertion   *)
(* that follows a "success" answer to a lookup of that same ip, with the   *)
(* geo of that answer.                                                     *)
(***************************************************************************)
C13_FailuresNotCached ==
    /\ [](\A t \in Tasks :
            IF HasSuccessReply(t) THEN task[t].geo \in GeoVals
            ELSE task[t].geo = NoGeo)
    /\ [][/\ \A t \in Tasks :
               LookupFails(t) =>
                   GEO_CACHE' = GEO_CACHE /\ task'[t].geo = NoGeo
          /\ \A t \in Tasks :
               HasSuccessReply(t)' /\ ~HasSuccessReply(t)
                   => LookupSucceeds(t)
          /\ \A ip \in DOMAIN GEO_CACHE' \ DOMAIN GEO_CACHE :
               \E t \in Tasks :
                   /\ task[t].pc = "ins"
                   /\ CurrentIp(t) = ip
                   /\ GEO_CACHE'[ip] = task[t].geo]_vars

\* The lookup of a public address has failed for one worker, which sleeps
\* with no geo while GEO_CACHE does not hold the address, and has succeeded
\* for another, which is about to insert.
C13_Witness ==
    \E t, u \in Tasks :
        /\ task[t].pc = "sleep"
        /\ CurrentIp(t) \notin PrivateIps
        /\ CurrentIp(t) \notin DOMAIN GEO_CACHE
        /\ task[t].geo = NoGeo
        /\ task[u].pc = "ins"
        /\ CurrentIp(u) = CurrentIp(t)

\* The artifact is the one found at startup: it exists and this process has
\* not written it.
ArtifactFromBefore == fileExists /\ writes = 0

\* No pair was submitted, no invocation of the utility and no lookup made.
NoOrchestration ==
    /\ \A t \in Tasks :
          task[t] = NewTask /\ primary[t] = "" /\ fallback[t] = ""
    /\ GEO_CACHE = <<>>
    /\ GEO_LOCK = 0

\* main has passed lines 626-634 and generates or serves the dashboard.
DashboardPhase == opc \in {"html", "serve"}

(***************************************************************************)
(* C14.  When the artifact exists at startup, main loads it and runs no    *)
(* orchestration: no pair is probed, no lookup is made, the artifact is    *)
(* not rewritten, and the dashboard shows the loaded results.  When it     *)
(* does not exist, the dashboard is generated only after one orchestration *)
(* run that has collected every pair and written the artifact once.        *)
(***************************************************************************)
C14_ArtifactDecidesRun ==
    /\ ArtifactFromBefore =>
          /\ opc \in {"main", "html", "serve"}
          /\ NoOrchestration
          /\ fileData = OldResults
          /\ DashboardPhase => results = OldResults
    /\ ~fileExists => writes = 0 /\ ~DashboardPhase
    /\ DashboardPhase /\ ~ArtifactFromBefore =>
          /\ writes = 1
          /\ AllWorkersFinished
          /\ results = fileData
          /\ Len(results) = NTargets

\* The dashboard is served from the artifact found at startup.
C14_Witness ==
    /\ opc = "serve"
    /\ ArtifactFromBefore
    /\ results = OldResults
    /\ NoOrchestration

\* What the specification gives for total_rtt: the latency of the last hop,
\* or none when there is no hop or the last hop has no latency.
FinalLatency(hops) ==
    IF hops = <<>> THEN None ELSE hops[Len(hops)].rtt_ms

(***************************************************************************)
(* C15.  In every TargetResult a worker returns, total_rtt is the latency  *)
(* of the last hop whenever that hop has one, a latency of 0 included, and *)
(* is none exactly when there is no hop or the last hop has no latency;    *)
(* hop_count is the length of the hop sequence.                            *)
(***************************************************************************)
C15_TotalIsFinalLatency ==
    \A t \in Tasks :
        Returned(t) =>
            /\ task[t].ret[1].hop_count = Len(task[t].ret[1].hops)
            /\ task[t].ret[1].total_rtt = FinalLatency(task[t].ret[1].hops)

\* Pair t has finished its pass of the loop of line 124 for ip.
PastIp(t, ip) ==
    \E j \in 1..Len(task[t].unique_ips) :
        /\ task[t].unique_ips[j] = ip
        /\ \/ task[t].pc \in {"attach", "att", "done", "collected"}
           \/ /\ task[t].pc \in {"loop", "chk", "geo_lock", "geo_chk", "net",
                                "ins_lock", "ins"}
              /\ task[t].i > j
           \/ task[t].pc = "sleep" /\ task[t].i >= j

\* A lookup of ip by pair t has failed.  Read at a moment GEO_CACHE has no
\* entry for ip, a public address: entries are never removed, so t did not
\* skip ip at line 126 and did not return at line 88; it sent the request
\* (line 92) and did not reach the insertion of line 106.
LookupFailedFor(t, ip) ==
    /\ ip \notin DOMAIN GEO_CACHE
    /\ ~RejectedLocally(ip)
    /\ PastIp(t, ip)

\* In this step pair t sends its request to the provider (line 92).
LookupStarts(t) == task[t].pc = "geo_chk" /\ task'[t].pc = "net"

(***************************************************************************)
(* C16.  Within one orchestration run an ip whose lookup has failed is not *)
(* queried again: no worker sends a request for an ip for which a lookup,  *)
(* of any worker of the run, has failed.                                   *)
(***************************************************************************)
C16_FailedIpNotRequeried ==
    [][\A t \in Tasks :
          LookupStarts(t) =>
              \A u \in Tasks : ~LookupFailedFor(u, CurrentIp(t))]_vars

(***************************************************************************)
(* C17.  geolocate_ip rejects locally exactly the addresses of 10.0.0.0/8, *)
(* 192.168.0.0/16 and 172.16.0.0/12: an address outside them, such as      *)
(* 172.32.0.1 or 172.217.0.1, is not rejected; it goes to the cache test   *)
(* and to the network, and the call returns the geo of a successful        *)
(* lookup.                                                                 *)
(***************************************************************************)
C17_RejectsExactlyPrivate ==
    /\ lookup.pc = "rejected" => IsPrivate(lookup.ip)
    /\ lookup.pc \in {"net", "returned"} => ~IsPrivate(lookup.ip)
    /\ lookup.pc = "returned" /\ lookup.ip \in DOMAIN GEO_CACHE =>
          lookup.ret = GEO_CACHE[lookup.ip]

\* The position of the first hop with this ip.
FirstAt(hops, ip) ==
    CHOOSE k \in 1..Len(hops) :
        hops[k].ip = ip /\ \A j \in 1..(k - 1) : hops[j].ip # ip

\* uniq holds each ip of the hops once, in the order of first appearance.
IsFirstSeenOrder(uniq, hops) ==
    /\ {uniq[a] : a \in 1..Len(uniq)}
          = {hops[k].ip : k \in 1..Len(hops)} \ {None}
    /\ \A a, b \in 1..Len(uniq) :
          a < b => /\ uniq[a] # uniq[b]
                   /\ FirstAt(hops, uniq[a]) < FirstAt(hops, uniq[b])

\* The positions of a worker inside the loop of lines 124-129, and those of
\* them between the call of geolocate_ip (line 128) and the end of the
\* delay (line 129).
LoopPcs ==
    {"loop", "chk", "geo_lock", "geo_chk", "net", "ins_lock", "ins", "sleep"}

CallPcs == {"geo_lock", "geo_chk", "net", "ins_lock", "ins", "sleep"}

\* In this step pair t calls geolocate_ip (line 128).
CallMade(t) == task[t].pc = "chk" /\ task'[t].pc \in CallPcs

\* In this step pair t leaves the pass of the loop for index i: the next
\* pass is for index i + 1, or the loop is over.
PassEnds(t) ==
    \/ task'[t].pc = "loop" /\ task'[t].i = task[t].i + 1
    \/ /\ task'[t].pc \in {"attach", "done"}
       /\ task[t].i = Len(task[t].unique_ips)

(***************************************************************************)
(* C18.  Within the pipeline of one target the loop of lines 124-129 goes  *)
(* once through the distinct hop ips in the order of their first           *)
(* appearance, so geolocate_ip is called at most once for each; it is      *)
(* called for the ip of the pass only when GEO_CACHE has no entry for it   *)
(* at the test of line 126, and a pass with an entry ends without a call;  *)
(* a pass in which the call was made ends only through the delay of line   *)
(* 129.                                                                    *)
(***************************************************************************)
C18_OneCallPerIpThenDelay ==
    /\ [](\A t \in Tasks :
            /\ IsFirstSeenOrder(task[t].unique_ips, task[t].tr.hops)
            /\ task[t].pc \in LoopPcs =>
                  task[t].i \in 1..Len(task[t].unique_ips))
    /\ [][\A t \in Tasks :
            /\ task'[t].pc = "loop" /\ task[t].pc \notin LoopPcs =>
                  task'[t].i = 1
            /\ CallMade(t) =>
                  /\ CurrentIp(t) \notin DOMAIN GEO_CACHE
                  /\ task'[t].i = task[t].i
            /\ task[t].pc = "chk" /\ CurrentIp(t) \in DOMAIN GEO_CACHE
                  /\ task'[t] # task[t] =>
                  PassEnds(t)
            /\ task[t].pc \in LoopPcs \ {"chk", "sleep"}
                  /\ task'[t] # task[t] =>
                  /\ task'[t].i = task[t].i
                  /\ task'[t].pc \in LoopPcs \ {"loop"}
            /\ task[t].pc = "sleep" /\ task'[t] # task[t] => PassEnds(t)]_vars

\* One worker is in the delay after its call for the only distinct ip of
\* two hops; another is in the delay after its call for the third of three
\* distinct ips.
C18_Witness ==
    \E t, u \in Tasks :
        /\ task[t].pc = "sleep"
        /\ Len(task[t].tr.hops) = 2
        /\ Len(task[t].unique_ips) = 1
        /\ task[u].pc = "sleep"
        /\ Len(task[u].unique_ips) = 3
        /\ task[u].i = 3

\* In this step the utility is invoked for pair t: the primary invocation
\* (line 30) or the fallback (line 38) ends and its outcome is recorded.
PrimaryInvoked(t) == primary'[t] # primary[t]

FallbackInvoked(t) == fallback'[t] # fallback[t]

(***************************************************************************)
(* C19.  For one target the utility is invoked at most twice: once with    *)
(* the primary arguments and at most once with the fallback arguments.     *)
(* The fallback is invoked only after the primary invocation raised a      *)
(* timeout or a missing executable, never after it returned.  A fallback   *)
(* that fails is not repeated, and run_traceroute then gives a result with *)
(* an error and no hops.                                                   *)
(***************************************************************************)
C19_AtMostOneFallback ==
    /\ [](\A t \in Tasks :
            /\ task[t].pc = "fallback" \/ fallback[t] # "" =>
                  primary[t] \in {"timeout", "missing"}
            /\ task[t].pc = "fallback" => fallback[t] = ""
            /\ fallback[t] \in Raising =>
                  /\ task[t].tr.error \notin {NoKey, ""}
                  /\ task[t].tr.hops = <<>>
                  /\ task[t].pc \in {"done", "collected"})
    /\ [][\A t \in Tasks :
            /\ PrimaryInvoked(t) => primary[t] = "" /\ fallback[t] = ""
            /\ FallbackInvoked(t) =>
                  /\ fallback[t] = ""
                  /\ primary[t] \in {"timeout", "missing"}
                  /\ primary'[t] = primary[t]]_vars

\* The primary invocation timed out and the fallback found no executable:
\* the worker has returned, with an error and no hops from run_traceroute.
C19_Witness ==
    \E t \in Tasks :
        /\ primary[t] = "timeout"
        /\ fallback[t] = "missing"
        /\ task[t].pc = "done"
        /\ task[t].tr.error = Message("missing")
        /\ task[t].ret[1].hops = <<>>

\* The hop the specification gives for one line after the header: the shape
\* of the first pattern that matches, or no hop.
ClassifiedHops(toks) ==
    IF toks = <<>> THEN <<>>
    ELSE IF MatchNamed(toks)
        THEN <<Hop(IntOf(toks[1]), toks[2],
                   SubSeq(toks[3], 2, Len(toks[3]) - 1),
                   FloatOf(LatencyAt(toks, 4)))>>
    ELSE IF MatchBare(toks)
        THEN <<Hop(IntOf(toks[1]), toks[2], toks[2],
                   FloatOf(LatencyAt(toks, 3)))>>
    ELSE IF MatchTimeout(toks)
        THEN <<Hop(IntOf(toks[1]), Star, None, None)>>
    ELSE <<>>

\* The hops of the lines, in the order of the lines.
RECURSIVE HopsInLineOrder(_)
HopsInLineOrder(lines) ==
    IF lines = <<>> THEN <<>>
    ELSE ClassifiedHops(Head(lines)) \o HopsInLineOrder(Tail(lines))

(***************************************************************************)
(* C20.  On every raw text the parser drops the first line (of the text    *)
(* without the blank lines around it) as the header and classifies every   *)
(* later non-empty line by the named-host, then the bare-ip, then the      *)
(* timeout pattern, the first match deciding the shape of the hop (with    *)
(* host = ip for a bare ip); a line no pattern matches gives no hop; the   *)
(* result holds the hops of all the lines, at most one for each, in the    *)
(* order of the lines.                                                     *)
(***************************************************************************)
C20_ClassifiesEveryLine ==
    parsed # <<>> =>
        /\ ~parsed[1].raised
        /\ parsed[1].hops = HopsInLineOrder(BodyLines(raw))

\* float() raises on this line (lines 56 and 65).
LineRaises(toks) ==
    IF toks = <<>> THEN FALSE
    ELSE IF MatchNamed(toks) THEN ~FloatOk(LatencyAt(toks, 4))
    ELSE MatchBare(toks) /\ ~FloatOk(LatencyAt(toks, 3))

\* The lines the loop of line 45 gets through: those before the first line
\* on which float() raises.
RECURSIVE ReachedLines(_)
ReachedLines(lines) ==
    IF lines = <<>> \/ LineRaises(Head(lines)) THEN <<>>
    ELSE <<Head(lines)>> \o ReachedLines(Tail(lines))

\* The line starts with an index and has a "*" somewhere after it.
StarAfterIndex(toks) ==
    /\ Len(toks) >= 2
    /\ AllDigits(toks[1])
    /\ \E k \in 2..Len(toks) : \E c \in 1..Len(toks[k]) : toks[k][c] = "*"

\* The line starts with an index and the "*" comes next.
StarNextToIndex(toks) ==
    /\ Len(toks) >= 2
    /\ AllDigits(toks[1])
    /\ toks[2][1] = "*"

\* Neither of the first two patterns matches the line.
NoAddressPattern(toks) == ~MatchNamed(toks) /\ ~MatchBare(toks)

\* The hop numbers of the lines that are to give a timeout hop, in line
\* order.
ExpectedTimeouts(lines, IsTimeout(_)) ==
    LET sel == SelectSeq(lines, IsTimeout)
    IN  [k \in 1..Len(sel) |-> IntOf(sel[k][1])]

\* The hop numbers of the hops without ip, in their order; each of them has
\* the host "*" and no latency.
RECURSIVE TimeoutHopNumbers(_)
TimeoutHopNumbers(hops) ==
    IF hops = <<>> THEN <<>>
    ELSE (IF Head(hops).ip = None THEN <<Head(hops).hop>> ELSE <<>>)
         \o TimeoutHopNumbers(Tail(hops))

TimeoutHopsWellFormed(hops) ==
    \A k \in 1..Len(hops) :
        hops[k].ip = None => hops[k].host = Star /\ hops[k].rtt_ms = None

\* "5 gw *": an index, another token, then the "*".
LineStarLater == <<<<"5">>, HostGw, Star>>

(***************************************************************************)
(* C21, as stated.  Every line the parser gets to that starts with an      *)
(* index, has a "*" anywhere after the index and matches neither the       *)
(* named-host nor the bare-ip pattern gives a timeout hop (host "*", no    *)
(* ip, no latency), also with other tokens between the index and the "*".  *)
(***************************************************************************)
C21_StarAnywhere ==
    parsed # <<>> =>
        /\ TimeoutHopsWellFormed(parsed[1].hops)
        /\ TimeoutHopNumbers(parsed[1].hops)
              = ExpectedTimeouts(ReachedLines(BodyLines(raw)),
                    LAMBDA toks : StarAfterIndex(toks)
                                      /\ NoAddressPattern(toks))

(***************************************************************************)
(* C21, amended.  Every line the parser gets to that starts with an index  *)
(* followed directly by a "*", and that matches neither the named-host nor *)
(* the bare-ip pattern, gives a timeout hop (host "*", no ip, no latency), *)
(* whatever follows the "*"; a line with another token between the index   *)
(* and the "*" that matches neither pattern gives no hop.                  *)
(***************************************************************************)
C21_StarNextToIndex ==
    parsed # <<>> =>
        /\ TimeoutHopsWellFormed(parsed[1].hops)
        /\ TimeoutHopNumbers(parsed[1].hops)
              = ExpectedTimeouts(ReachedLines(BodyLines(raw)),
                    LAMBDA toks : StarNextToIndex(toks)
                                      /\ NoAddressPattern(toks))

\* A text with the lines "5 gw *" and "7 *" after the header was parsed:
\* the only hop is the timeout hop 7.
C21_Witness ==
    /\ parsed # <<>>
    /\ ~parsed[1].raised
    /\ Len(raw) = 3
    /\ raw[2] = LineStarLater
    /\ raw[3] = <<<<"7">>, Star>>
    /\ parsed[1].hops = <<Hop(7, Star, None, None)>>

\* Pair t was submitted and its future is not done.
Pending(t) ==
    task[t].pc \notin {"new", "done", "raised", "collected"}

\* Pair t waits for GEO_LOCK.
WaitsForLock(t) ==
    task[t].pc \in {"loop", "geo_lock", "ins_lock", "attach"}

\* run_all_traceroutes stands at the write of line 187, with a result for
\* every pair, no worker running and the lock free.
AtPersist ==
    /\ opc = "write"
    /\ Len(results) = NTargets
    /\ AllWorkersFinished
    /\ GEO_LOCK = 0

(***************************************************************************)
(* C22.  With every invocation of the utility and every lookup returning   *)
(* or failing, run_all_traceroutes terminates: a run that was started      *)
(* reaches the write of the artifact with as many results as pairs, every  *)
(* submitted pair completed (its future holds a result or an exception),   *)
(* no worker waiting for GEO_LOCK and the lock free; pairs are pending and *)
(* the lock is waited for or held only between the start and that point.   *)
(***************************************************************************)
C22_RunTerminates ==
    /\ [](\A t \in Tasks :
            Pending(t) \/ WaitsForLock(t) \/ GEO_LOCK = t => opc = "collect")
    /\ opc = "collect" ~> AtPersist

\* The run stands at the write after both kinds of completion: one future
\* holds a result whose lookups went through the lock, another raised.
C22_Witness ==
    /\ AtPersist
    /\ GEO_CACHE # <<>>
    /\ \E t \in Tasks : Raised(t)
    /\ \E t \in Tasks : task[t].ret # <<>> /\ task[t].ret[1].hop_count > 1
=============================================================================
